---------------------------- MODULE Spec2Model ----------------------------
(***************************************************************************)
(* Pikalba storefront backend (src/main.py, src/schemas.py).               *)
(*                                                                         *)
(* The handlers of src/main.py share no in-process state: the only state   *)
(* is the document store, modelled as db (collection name -> sequence of   *)
(* documents, in store order) and the store's identifier generator         *)
(* idCounter.  The handlers are plain functions that the server runs side  *)
(* by side, and nothing locks the store between two gateway calls of one   *)
(* handler: an action is one handler up to and including its next gateway  *)
(* call.  A handler with a single gateway call is one action; create_order *)
(* with a promo code and recommend_for_sku make two calls and are two      *)
(* actions each, and inflight holds the executions that are between their  *)
(* two calls, with what the first call returned.  last is the record of    *)
(* the most recent handler execution that completed (its request, the      *)
(* gateway calls it made, its response, and the collection as its first    *)
(* read found it).                                                         *)
(*                                                                         *)
(* Conventions.                                                            *)
(*  - Money is a Python float: see "Python floats" below.  Amounts are     *)
(*    written FromMills(n), the float a request parser makes of the        *)
(*    decimal n/1000: FromMills(100000) is 100.00, FromMills(125) is 0.125. *)
(*  - An Optional value is a sequence of length <= 1: <<>> is None and     *)
(*    <<v>> is the value v.                                                *)
(*  - A string that the store matches against a regular expression (an     *)
(*    order identifier, a product title, description or tag) is a sequence *)
(*    of one-character strings; the other strings are TLA+ strings.        *)
(***************************************************************************)
EXTENDS Integers, Sequences, FiniteSets, TLC

VARIABLES db, idCounter, last, inflight

vars == <<db, idCounter, last, inflight>>

-----------------------------------------------------------------------------
(* Bounds of the model. *)

\* documents a run of the whole service creates (all collections together)
MaxDocs == 2
\* promo documents present in the promocode collection (pricing runs)
MaxPromos == 2
\* orders placed in a pricing run
MaxPricedOrders == 1
\* orders placed in a tracking run
MaxTrackedOrders == 3
\* products created in a catalog run
MaxProducts == 2
\* handler executions that are between their two gateway calls at one time
MaxInFlight == 1

-----------------------------------------------------------------------------
(* Python values. *)

None == <<>>

Some(v) == <<v>>

\* Python truthiness of an Optional[int]: None and 0 are falsy.
TruthyInt(o) == o # None /\ o[1] # 0

\* Python truthiness of an Optional[float]: None and 0.0 are falsy.
TruthyFloat(o) == o # None /\ o[1].s # 0

\* Python truthiness of an Optional[str]: None and "" are falsy.
TruthyStr(o) == o # None /\ o[1] # ""

Min(a, b) == IF a <= b THEN a ELSE b

Range(s) == {s[i] : i \in DOMAIN s}

-----------------------------------------------------------------------------
(* Python floats.  A float is an IEEE 754 binary64 number, held exactly:   *)
(* [s, m, e] stands for s * m * 2^e, with s the sign (1 or -1), m the       *)
(* 53-bit significand and e the exponent; zero is FZero.  The significand   *)
(* does not fit a machine integer of the checker, so it is a natural number *)
(* of any size, written in base 2^15, least significant digit first and     *)
(* without leading zeros (<<>> is 0).  Every operation computes the exact   *)
(* result and rounds it to the nearest float, ties to even, as the hardware *)
(* does.  Infinities, NaN and subnormal numbers do not occur for amounts of *)
(* money and are left out; -0.0 is held as 0.                               *)

Base == 2^15

\* The digits of the natural number n.
RECURSIVE BigOf(_)
BigOf(n) == IF n = 0 THEN <<>> ELSE <<n % Base>> \o BigOf(n \div Base)

\* a + b + c for naturals a, b in digits and a carry c.
RECURSIVE AddBig(_, _, _)
AddBig(a, b, c) ==
    IF a = <<>> /\ b = <<>> THEN BigOf(c)
    ELSE LET x == IF a = <<>> THEN 0 ELSE Head(a)
             y == IF b = <<>> THEN 0 ELSE Head(b)
             t == x + y + c
         IN  <<t % Base>> \o AddBig(IF a = <<>> THEN a ELSE Tail(a),
                                    IF b = <<>> THEN b ELSE Tail(b),
                                    t \div Base)

\* The digits a without leading zeros.
RECURSIVE TrimBig(_)
TrimBig(a) ==
    IF a = <<>> \/ a[Len(a)] # 0 THEN a
    ELSE TrimBig(SubSeq(a, 1, Len(a) - 1))

\* a - b - c for naturals a >= b + c, with leading zeros.
RECURSIVE SubBorrow(_, _, _)
SubBorrow(a, b, c) ==
    IF a = <<>> THEN <<>>
    ELSE LET y == IF b = <<>> THEN 0 ELSE Head(b)
             t == Head(a) - y - c
         IN  <<t % Base>> \o SubBorrow(Tail(a),
                                       IF b = <<>> THEN b ELSE Tail(b),
                                       IF t < 0 THEN 1 ELSE 0)

SubBig(a, b) == TrimBig(SubBorrow(a, b, 0))

\* a < b for naturals in digits.
LessBig(a, b) ==
    \/ Len(a) < Len(b)
    \/ /\ Len(a) = Len(b)
       /\ \E i \in 1..Len(a) :
             /\ a[i] < b[i]
             /\ \A j \in (i + 1)..Len(a) : a[j] = b[j]

\* a * p + c for a natural a in digits and integers 0 < p <= Base, c < Base.
RECURSIVE MulSmall(_, _, _)
MulSmall(a, p, c) ==
    IF a = <<>> THEN BigOf(c)
    ELSE LET t == Head(a) * p + c
         IN  <<t % Base>> \o MulSmall(Tail(a), p, t \div Base)

\* The quotient (in digits) and the remainder of a by the integer d,
\* 0 < d <= Base.
RECURSIVE DivSmall(_, _)
DivSmall(a, d) ==
    IF a = <<>> THEN [q |-> <<>>, r |-> 0]
    ELSE LET hi == DivSmall(Tail(a), d)
             n == hi.r * Base + Head(a)
         IN  [q |-> IF hi.q = <<>> /\ n < d THEN <<>> ELSE <<n \div d>> \o hi.q,
              r |-> n % d]

\* a * 2^k and the whole part of a / 2^k.
ShiftLeft(a, k) ==
    IF a = <<>> THEN a
    ELSE LET digits == MulSmall(a, 2^(k % 15), 0)
         IN  IF k < 15 THEN digits ELSE [i \in 1..(k \div 15) |-> 0] \o digits

ShiftRight(a, k) ==
    IF k \div 15 >= Len(a) THEN <<>>
    ELSE DivSmall(SubSeq(a, k \div 15 + 1, Len(a)), 2^(k % 15)).q

\* The number of bits of a.
BitLen(a) ==
    IF a = <<>> THEN 0
    ELSE 15 * (Len(a) - 1)
         + (CHOOSE b \in 1..15 : 2^(b - 1) <= a[Len(a)] /\ a[Len(a)] < 2^b)

\* a / 2^k for a natural in digits, rounded to the nearest natural, ties to
\* even.
RoundShift(a, k) ==
    IF k = 0 THEN a
    ELSE LET q == ShiftRight(a, k)
             r == SubBig(a, ShiftLeft(q, k))
             half == ShiftLeft(<<1>>, k - 1)
             odd == q # <<>> /\ q[1] % 2 = 1
         IN  IF LessBig(half, r) \/ (r = half /\ odd)
             THEN AddBig(q, <<1>>, 0)
             ELSE q

FZero == [s |-> 0, m |-> <<>>, e |-> 0]

\* The float nearest to s * n * 2^e, for a natural n in digits.
Pack(s, n, e) ==
    LET k == BitLen(n) - 53
        q == RoundShift(n, k)
    IN  IF n = <<>> \/ s = 0 THEN FZero
        ELSE IF k <= 0 THEN [s |-> s, m |-> ShiftLeft(n, -k), e |-> e + k]
        ELSE IF BitLen(q) = 54
        THEN [s |-> s, m |-> ShiftRight(q, 1), e |-> e + k + 1]
        ELSE [s |-> s, m |-> q, e |-> e + k]

\* The float nearest to s * (n * 2^e) / d, for a natural n in digits and an
\* integer d, 0 < d <= Base: the quotient is carried to 55 bits or more, and
\* a last bit says whether anything was left over.
PackRatio(s, n, e, d) ==
    LET k == IF BitLen(n) < 70 THEN 70 - BitLen(n) ELSE 0
        qr == DivSmall(ShiftLeft(n, k), d)
    IN  IF n = <<>> THEN FZero
        ELSE Pack(s, MulSmall(qr.q, 2, IF qr.r = 0 THEN 0 ELSE 1), e - k - 1)

Sign(i) == IF i > 0 THEN 1 ELSE IF i < 0 THEN -1 ELSE 0

Abs(i) == IF i < 0 THEN -i ELSE i

\* The float of the decimal n/1000: a JSON number with up to three decimals,
\* as the request parser reads it.
FromMills(n) == PackRatio(Sign(n), BigOf(Abs(n)), 0, 1000)

\* x * p and x / d for a float x and Python ints p, d in 1..Base (an int
\* that small is itself a float, so only the result is rounded).
FMulInt(x, p) == Pack(x.s, MulSmall(x.m, p, 0), x.e)

FDivInt(x, d) == PackRatio(x.s, x.m, x.e, d)

FNeg(x) == [x EXCEPT !.s = -x.s]

\* x + y
FAdd(x, y) ==
    IF x.s = 0 THEN y
    ELSE IF y.s = 0 THEN x
    ELSE LET e == IF x.e <= y.e THEN x.e ELSE y.e
             a == ShiftLeft(x.m, x.e - e)
             b == ShiftLeft(y.m, y.e - e)
         IN  IF x.s = y.s THEN Pack(x.s, AddBig(a, b, 0), e)
             ELSE IF LessBig(a, b) THEN Pack(y.s, SubBig(b, a), e)
             ELSE Pack(x.s, SubBig(a, b), e)

\* x - y
FSub(x, y) == FAdd(x, FNeg(y))

\* round(x, 2): the exact value of x is rounded to a whole number of
\* hundredths, ties to even, and the float nearest to that decimal returned.
Round2(x) ==
    IF x.s = 0 THEN x
    ELSE LET h == MulSmall(x.m, 100, 0)
             c == IF x.e >= 0 THEN ShiftLeft(h, x.e) ELSE RoundShift(h, -x.e)
         IN  PackRatio(x.s, c, 0, 100)

\* max(0, x)
Max0(x) == IF x.s = 1 THEN x ELSE FZero

-----------------------------------------------------------------------------
(* Document Store Gateway: database.py (create_document, get_documents) is  *)
(* not among the sources; it is modelled from spec section 6.  A filter is   *)
(* the record [conds, has_or, or]: conds are the top-level field conditions  *)
(* (all must hold), or is the "$or" list (one must hold) and has_or says     *)
(* whether the filter carries an "$or" key at all.  A condition is           *)
(* [field, op, val] with op one of eq, ne ("$ne"), in ("$in"), regex         *)
(* ("$regex") and iregex ("$regex" with "$options": "i").                    *)

Cond(f, o, v) == [field |-> f, op |-> o, val |-> v]

\* Lower case of one character (the "i" option).
Lower(c) == CASE c = "A" -> "a" [] c = "G" -> "g" [] OTHER -> c

\* An unanchored regular-expression search of pat in the string s.  The
\* pattern language is literal characters and ".", which matches any one
\* character.
RegexSearch(pat, s, icase) ==
    \E i \in 0..(Len(s) - Len(pat)) :
        \A j \in 1..Len(pat) :
            \/ pat[j] = "."
            \/ IF icase THEN Lower(pat[j]) = Lower(s[i + j]) ELSE pat[j] = s[i + j]

\* Whether document doc satisfies one condition.  A condition on a field the
\* document lacks holds only for ne.  On the array field tags, in and regex
\* hold when some element satisfies them.
CondHolds(doc, c) ==
    IF c.field \notin DOMAIN doc THEN c.op = "ne"
    ELSE LET v == doc[c.field]
         IN  CASE c.op = "eq" -> v = c.val
               [] c.op = "ne" -> v # c.val
               [] c.op = "in" -> \E i \in DOMAIN v : v[i] \in Range(c.val)
               [] c.op \in {"regex", "iregex"} ->
                    IF c.field = "tags"
                    THEN \E i \in DOMAIN v : RegexSearch(c.val, v[i], c.op = "iregex")
                    ELSE RegexSearch(c.val, v, c.op = "iregex")

Matches(doc, filter) ==
    /\ \A i \in DOMAIN filter.conds : CondHolds(doc, filter.conds[i])
    /\ filter.has_or => \E i \in DOMAIN filter.or : CondHolds(doc, filter.or[i])

\* The first n elements of s.
Take(s, n) == SubSeq(s, 1, Min(n, Len(s)))

\* query(collection, filter, limit): the matching documents, in store order,
\* at most limit of them.
get_documents(collection_name, filter, limit) ==
    LET hit(doc) == Matches(doc, filter)
    IN  Take(SelectSeq(db[collection_name], hit), limit)

\* The store-assigned identifiers: the generator's count written in the digits
\* a, b (a, b, ba, bb, baa, ...); no two documents get the same one.
RECURSIVE IdOf(_)
IdOf(n) ==
    LET digit == IF n % 2 = 0 THEN "a" ELSE "b"
    IN  IF n < 2 THEN <<digit>> ELSE IdOf(n \div 2) \o <<digit>>

\* The identifier create(collection, document) is about to return.
NewId == IdOf(idCounter)

\* create(collection, document): insert one document, with its identifier.
create_document(collection_name, data) ==
    /\ db' = [db EXCEPT ![collection_name] = Append(@, [_id |-> NewId] @@ data)]
    /\ idCounter' = idCounter + 1

\* A handler that writes nothing.
NoWrite == UNCHANGED <<db, idCounter>>

\* doc.pop("_id", None)
PopId(doc) == [k \in DOMAIN doc \ {"_id"} |-> doc[k]]

PopIds(docs) == [i \in DOMAIN docs |-> PopId(docs[i])]

\* One gateway call, as recorded in last.calls.
Read(c) == [op |-> "read", coll |-> c]

Write(c) == [op |-> "write", coll |-> c]

Count(calls, o) == Cardinality({i \in DOMAIN calls : calls[i].op = o})

\* The record of one completed handler execution.  seen is kept for
\* create_order only: the promocode collection as the handler found it, when
\* it looked the promo up or, without a lookup, when it ran.
Exec(h, req, calls, status, body, seen) ==
    [handler |-> h, req |-> req, calls |-> calls, status |-> status, body |-> body,
     seen |-> seen]

\* A handler execution between its two gateway calls: found is what the first
\* call returned; seen is as in Exec.
InFlight(h, req, found, seen) ==
    [handler |-> h, req |-> req, found |-> found, seen |-> seen]

\* The sequence s without its i-th element.
Remove(s, i) == SubSeq(s, 1, i - 1) \o SubSeq(s, i + 1, Len(s))

Collections ==
    {"product", "order", "promocode", "wishlist", "newsletter", "blogpost",
     "event", "recommendationfeedback"}

Init ==
    /\ db = [c \in Collections |-> <<>>]
    /\ idCounter = 0
    /\ last = Exec("none", <<>>, <<>>, 0, <<>>, <<>>)
    /\ inflight = <<>>

-----------------------------------------------------------------------------
(* Orders (src/main.py 55-86).  An order is the record of the Order fields  *)
(* the handlers read or write; a request is [order, promo_code].            *)

\* PromoFilter without the "active" condition.
PromoFilterAnyStatus(code) ==
    [conds |-> <<Cond("code", "eq", code)>>, has_or |-> FALSE, or |-> <<>>]

\* line 64: {"code": req.promo_code, "active": True}
PromoFilter(code) ==
    [conds |-> <<Cond("code", "eq", code), Cond("active", "eq", TRUE)>>,
     has_or |-> FALSE, or |-> <<>>]

\* promo.get(k)
Get(doc, k) == IF k \in DOMAIN doc THEN doc[k] ELSE None

\* PercentDiscount without the rounding to cents.
PercentDiscountUnrounded(subtotal, percent) == FDivInt(FMulInt(subtotal, percent), 100)

\* line 70: round(order["subtotal"] * percent / 100, 2)
PercentDiscount(subtotal, percent) == Round2(FDivInt(FMulInt(subtotal, percent), 100))

\* RecomputedTotal without the floor at 0.
RecomputedTotalUnfloored(o) == Round2(FSub(FAdd(o.subtotal, o.shipping_cost), o.discount))

\* line 73: max(0, round(subtotal + shipping_cost - discount, 2))
RecomputedTotal(o) ==
    Max0(Round2(FSub(FAdd(o.subtotal, o.shipping_cost), o.discount)))

\* apply_promo with the amount-off replacing the running discount.
ApplyPromoAmountOverwrites(o, promo) ==
    LET percent == Get(promo, "percent_off")
        amount == Get(promo, "amount_off")
        d1 == IF TruthyInt(percent)
              THEN FAdd(o.discount, PercentDiscount(o.subtotal, percent[1]))
              ELSE o.discount
        d2 == IF TruthyFloat(amount) THEN amount[1] ELSE d1
        o2 == [o EXCEPT !.discount = d2]
    IN  [o2 EXCEPT !.total = RecomputedTotal(o2)]

\* apply_promo with the amount-off applied only when there is no percent-off.
ApplyPromoExclusive(o, promo) ==
    LET percent == Get(promo, "percent_off")
        amount == Get(promo, "amount_off")
        d == IF TruthyInt(percent)
             THEN FAdd(o.discount, PercentDiscount(o.subtotal, percent[1]))
             ELSE IF TruthyFloat(amount) THEN FAdd(o.discount, amount[1])
             ELSE o.discount
        o2 == [o EXCEPT !.discount = d]
    IN  [o2 EXCEPT !.total = RecomputedTotal(o2)]

\* lines 66-73: the order after the promo found is applied.  The percent part
\* and the amount-off are added to the running discount one after the other,
\* each sum a float sum.
apply_promo(o, promo) ==
    LET percent == Get(promo, "percent_off")
        amount == Get(promo, "amount_off")
        d1 == IF TruthyInt(percent)
              THEN FAdd(o.discount, PercentDiscount(o.subtotal, percent[1]))
              ELSE o.discount
        d2 == IF TruthyFloat(amount) THEN FAdd(d1, amount[1]) ELSE d1
        o2 == [o EXCEPT !.discount = d2]
    IN  [o2 EXCEPT !.total = RecomputedTotal(o2)]

\* line 64: the promo lookup, on the store as it is now.
promo_lookup(req) == get_documents("promocode", PromoFilter(req.promo_code[1]), 1)

\* priced_order recomputing the total whether or not a promo was found.
PricedOrderAlwaysRecomputed(order, promos) ==
    LET o == IF promos # <<>> THEN apply_promo(order, promos[1]) ELSE order
    IN  [o EXCEPT !.total = RecomputedTotal(o)]

\* lines 65-73: the order document handed to the store, for the promos the
\* lookup returned (none when no lookup was made).
priced_order(order, promos) ==
    IF promos # <<>> THEN apply_promo(order, promos[1]) ELSE order

\* create_order looking the promo up twice (by code, then for being active).
CreateOrderCallsTwoLookups(req) ==
    (IF TruthyStr(req.promo_code)
     THEN <<Read("promocode"), Read("promocode")>> ELSE <<>>) \o <<Write("order")>>

\* The gateway calls of create_order (lines 64 and 74).
create_order_calls(req) ==
    (IF TruthyStr(req.promo_code) THEN <<Read("promocode")>> ELSE <<>>)
        \o <<Write("order")>>

\* lines 65-77: the order is priced and stored and the response built.
place_order(req, promos, seen) ==
    /\ create_document("order", priced_order(req.order, promos))
    /\ last' = Exec("create_order", req, create_order_calls(req), 201,
                    [id |-> NewId, paypal_order_id |-> <<"SIM-PAYPAL-">> \o NewId],
                    seen)

\* POST /api/orders (lines 59-77), up to its first gateway call: with a truthy
\* promo code the promo lookup of line 64, otherwise the insert of line 74,
\* which completes the handler.
create_order(req) ==
    IF TruthyStr(req.promo_code)
    THEN /\ inflight' = Append(inflight,
                InFlight("create_order", req, promo_lookup(req), db["promocode"]))
         /\ UNCHANGED <<db, idCounter, last>>
    ELSE /\ place_order(req, <<>>, db["promocode"])
         /\ UNCHANGED inflight

\* POST /api/orders, lines 65-77, for the execution inflight[i] whose promo
\* lookup has returned.
create_order_write(i) ==
    /\ inflight[i].handler = "create_order"
    /\ place_order(inflight[i].req, inflight[i].found, inflight[i].seen)
    /\ inflight' = Remove(inflight, i)

\* line 81: {"_id": {"$regex": order_id}}
TrackFilter(order_id) ==
    [conds |-> <<Cond("_id", "regex", order_id)>>, has_or |-> FALSE, or |-> <<>>]

\* track_response without doc.pop("_id").
TrackResponseKeepsId(docs) ==
    IF docs = <<>>
    THEN [status |-> 404, body |-> [detail |-> "Order not found"]]
    ELSE [status |-> 200, body |-> docs[1]]

\* lines 82-86: the response for the documents the lookup returned.
track_response(docs) ==
    IF docs = <<>>
    THEN [status |-> 404, body |-> [detail |-> "Order not found"]]
    ELSE [status |-> 200, body |-> PopId(docs[1])]

\* GET /api/orders/track/{order_id} (lines 79-86)
track_order(order_id) ==
    LET r == track_response(get_documents("order", TrackFilter(order_id), 1))
    IN  /\ NoWrite
        /\ last' = Exec("track_order", order_id, <<Read("order")>>, r.status, r.body,
                        <<>>)
        /\ UNCHANGED inflight

\* The promocode collection has no endpoint: promo documents (PromoCode,
\* src/schemas.py 68-73) are put into the store from outside this service.
insert_promo(promo) ==
    /\ create_document("promocode", promo)
    /\ last' = Exec("none", <<>>, <<>>, 0, <<>>, <<>>)
    /\ UNCHANGED inflight

-----------------------------------------------------------------------------
(* Catalog and recommendations (src/main.py 25-51, 130-157).  A product is  *)
(* the record of the Product fields the filters read.                       *)

\* lines 27-35: the filter of list_products.
products_filter(category, q) ==
    [conds |-> <<Cond("active", "eq", TRUE)>>
                 \o (IF TruthyStr(category)
                     THEN <<Cond("category", "eq", category[1])>> ELSE <<>>),
     has_or |-> (q # None /\ q[1] # <<>>),
     or |-> IF q # None /\ q[1] # <<>>
            THEN <<Cond("title", "iregex", q[1]), Cond("description", "iregex", q[1]),
                   Cond("tags", "iregex", q[1])>>
            ELSE <<>>]

\* GET /api/products (lines 25-43)
list_products(category, q, limit) ==
    /\ NoWrite
    /\ last' = Exec("list_products", [category |-> category, q |-> q, limit |-> limit],
                    <<Read("product")>>, 200,
                    PopIds(get_documents("product", products_filter(category, q), limit)),
                    <<>>)
    /\ UNCHANGED inflight

\* POST /api/products (lines 45-51)
create_product(product) ==
    /\ create_document("product", product)
    /\ last' = Exec("create_product", product, <<Write("product")>>, 201, [id |-> NewId],
                    <<>>)
    /\ UNCHANGED inflight

\* line 133: {"sku": sku}
SkuFilter(sku) == [conds |-> <<Cond("sku", "eq", sku)>>, has_or |-> FALSE, or |-> <<>>]

\* recommend_query without the "$or" clauses.
RecommendQueryNoClauses(p, sku) ==
    [conds |-> <<Cond("active", "eq", TRUE), Cond("sku", "ne", sku)>>,
     has_or |-> FALSE, or |-> <<>>]

\* lines 137-147: the candidate filter built from the source product p.  The
\* "$or" key is dropped when no clause was added.
recommend_query(p, sku) ==
    LET tags == p.tags
        brand == p.brand
        category == p.category
        clauses == (IF tags # <<>> THEN <<Cond("tags", "in", tags)>> ELSE <<>>)
                   \o (IF brand # "" THEN <<Cond("brand", "eq", brand)>> ELSE <<>>)
                   \o (IF category # "" THEN <<Cond("category", "eq", category)>> ELSE <<>>)
    IN  [conds |-> <<Cond("active", "eq", TRUE), Cond("sku", "ne", sku)>>,
         has_or |-> clauses # <<>>, or |-> clauses]

\* product_not_found answering with an empty list of items instead.
ProductNotFoundEmptyList == [status |-> 200, body |-> [items |-> <<>>]]

\* lines 134-135: HTTPException(status_code=404, detail="Product not found")
product_not_found == [status |-> 404, body |-> [detail |-> "Product not found"]]

\* GET /api/recommendations/{sku} (lines 130-152), up to its first gateway
\* call: the lookup of the source product (line 133), which completes the
\* handler with the 404 when nothing carries the SKU.
recommend_for_sku(sku, limit) ==
    LET prod_docs == get_documents("product", SkuFilter(sku), 1)
        req == [sku |-> sku, limit |-> limit]
    IN  /\ NoWrite
        /\ IF prod_docs = <<>>
           THEN /\ last' = Exec("recommend_for_sku", req, <<Read("product")>>,
                                product_not_found.status, product_not_found.body,
                                <<>>)
                /\ UNCHANGED inflight
           ELSE /\ inflight' = Append(inflight,
                       InFlight("recommend_for_sku", req, prod_docs, <<>>))
                /\ UNCHANGED last

\* GET /api/recommendations/{sku}, lines 136-152, for the execution
\* inflight[i] whose source lookup has returned: the candidate query (line
\* 148), on the store as it is now.
recommend_candidates(i) ==
    LET req == inflight[i].req
        p == inflight[i].found[1]
    IN  /\ inflight[i].handler = "recommend_for_sku"
        /\ NoWrite
        /\ last' = Exec("recommend_for_sku", req, <<Read("product"), Read("product")>>,
                        200,
                        [items |-> PopIds(get_documents("product",
                                       recommend_query(p, req.sku), req.limit))],
                        <<>>)
        /\ inflight' = Remove(inflight, i)

\* POST /api/recommendations/feedback (lines 154-157)
recommendation_feedback(f) ==
    /\ create_document("recommendationfeedback", f)
    /\ last' = Exec("recommendation_feedback", f, <<Write("recommendationfeedback")>>,
                    200, [id |-> NewId], <<>>)
    /\ UNCHANGED inflight

-----------------------------------------------------------------------------
(* Wishlist, newsletter, blog and events (src/main.py 88-126).              *)

\* POST /api/wishlist (lines 90-93)
save_wishlist(w) ==
    /\ create_document("wishlist", w)
    /\ last' = Exec("save_wishlist", w, <<Write("wishlist")>>, 200, [id |-> NewId], <<>>)
    /\ UNCHANGED inflight

\* POST /api/newsletter (lines 97-100)
subscribe_newsletter(n) ==
    /\ create_document("newsletter", n)
    /\ last' = Exec("subscribe_newsletter", n, <<Write("newsletter")>>, 200,
                    [id |-> NewId], <<>>)
    /\ UNCHANGED inflight

\* line 106: {"published": True}
BlogFilter == [conds |-> <<Cond("published", "eq", TRUE)>>, has_or |-> FALSE, or |-> <<>>]

\* GET /api/blog (lines 104-109)
list_blog(limit) ==
    /\ NoWrite
    /\ last' = Exec("list_blog", limit, <<Read("blogpost")>>, 200,
                    PopIds(get_documents("blogpost", BlogFilter, limit)), <<>>)
    /\ UNCHANGED inflight

\* POST /api/blog (lines 111-114)
create_blog(p) ==
    /\ create_document("blogpost", p)
    /\ last' = Exec("create_blog", p, <<Write("blogpost")>>, 200, [id |-> NewId], <<>>)
    /\ UNCHANGED inflight

\* line 118: {}
EventFilter == [conds |-> <<>>, has_or |-> FALSE, or |-> <<>>]

\* GET /api/events (lines 116-121)
list_events(limit) ==
    /\ NoWrite
    /\ last' = Exec("list_events", limit, <<Read("event")>>, 200,
                    PopIds(get_documents("event", EventFilter, limit)), <<>>)
    /\ UNCHANGED inflight

\* POST /api/events (lines 123-126)
create_event(e) ==
    /\ create_document("event", e)
    /\ last' = Exec("create_event", e, <<Write("event")>>, 200, [id |-> NewId], <<>>)
    /\ UNCHANGED inflight

-----------------------------------------------------------------------------
(* The requests the handlers are driven with. *)

\* The floats of a set of decimals given in thousandths.
Amounts(S) == {FromMills(n) : n \in S}

\* 0.05 and 1.25 (10% of them is 0.005 and 0.125: the first is no tie as a
\* float, the second is one), and 100.00
Subtotals == Amounts({50, 1250, 100000})

ShippingCosts == Amounts({10000})

\* none, a fraction of a cent, and more than any subtotal plus shipping
Discounts == Amounts({0, 4, 200000})

\* the caller's total need not agree with the other fields
Totals == Amounts({0, 110000})

\* The order payloads of pricing runs, all with a total of 110.00: 100.00 and
\* 1.25 without discount, 1.25 with the large discount and 0.05 with the
\* small one.
Orders ==
    {o \in [subtotal : Subtotals, shipping_cost : ShippingCosts, discount : Discounts,
            total : {FromMills(110000)}, status : {"pending"}] :
        \/ o.subtotal = FromMills(100000) /\ o.discount = FromMills(0)
        \/ o.subtotal = FromMills(1250) /\ o.discount # FromMills(4)
        \/ o.subtotal = FromMills(50) /\ o.discount = FromMills(4)}

\* Pricing runs send the code of the promos in the store.
Requests == [order : Orders, promo_code : {Some("SAVE10")}]

\* The promo documents of pricing runs: active, with a percent-off, an
\* amount-off, both or neither.
PromoDocs ==
    [code : {"SAVE10"}, percent_off : {None, Some(10)},
     amount_off : {None, Some(FromMills(5000))}, active : {TRUE}]

\* Lookup runs send every kind of promo code, with an order of 100.00 + 10.00.
LookupOrders ==
    {o \in [subtotal : Subtotals, shipping_cost : ShippingCosts, discount : Discounts,
            total : Totals, status : {"pending"}] :
        o.subtotal = FromMills(100000) /\ o.discount # FromMills(4)}

PromoCodesSent == {None, Some(""), Some("SAVE10"), Some("OTHER")}

LookupRequests == [order : LookupOrders, promo_code : PromoCodesSent]

\* The promo documents of lookup runs: an active and an inactive one with the
\* same code, and an active one whose code is the empty string.
LookupPromoDocs ==
    {[code |-> "SAVE10", percent_off |-> Some(10), amount_off |-> None, active |-> TRUE],
     [code |-> "SAVE10", percent_off |-> Some(10), amount_off |-> None, active |-> FALSE],
     [code |-> "", percent_off |-> Some(10), amount_off |-> None, active |-> TRUE]}

\* subtotal 100.00, shipping 10.00, no discount, total 110.00
ScenarioOrder ==
    [subtotal |-> FromMills(100000), shipping_cost |-> FromMills(10000),
     discount |-> FromMills(0), total |-> FromMills(110000), status |-> "pending"]

TrackedRequests ==
    {[order |-> ScenarioOrder, promo_code |-> None],
     [order |-> [ScenarioOrder EXCEPT !.total = FromMills(0)], promo_code |-> None]}

\* order_id path parameters: one or two characters of a, b and ".", except
\* the path segments "." and "..".
OrderIdChars == {"a", "b", "."}

OrderIds ==
    ({<<c>> : c \in OrderIdChars} \cup {<<c, d>> : c \in OrderIdChars, d \in OrderIdChars})
        \ {<<".">>, <<".", ".">>}

Grip == <<"g", "r", "i", "p">>

Outdoor == <<"o", "u", "t">>

\* The products: P1 with all three attributes (active or not) or with none
\* of P2's, and P2 with every combination of category, brand and tag, active,
\* and one inactive.
Products ==
    {p \in [sku : {"P1", "P2"}, title : {<<"G", "r", "i", "p">>}, description : {<<>>},
            category : {"pickleball", "padel"}, brand : {"Acme", "Zen"},
            tags : {<<>>, <<Grip>>, <<Outdoor, Grip>>}, active : BOOLEAN] :
        \/ /\ p.sku = "P1"
           /\ \/ p.category = "pickleball" /\ p.brand = "Acme" /\ p.tags = <<Outdoor, Grip>>
              \/ p.category = "padel" /\ p.brand = "Zen" /\ p.tags = <<>> /\ p.active
        \/ /\ p.sku = "P2"
           /\ p.tags # <<Outdoor, Grip>>
           /\ p.active \/ (p.category = "pickleball" /\ p.brand = "Acme" /\ p.tags = <<Grip>>)}

Skus == {"P1", "P2", "P9"}

Limits == {1, 2}

-----------------------------------------------------------------------------
(* Which requests a run may start.                                          *)

\* One more handler execution may be between its two gateway calls.
Free == Len(inflight) < MaxInFlight

\* Whether a run may start create_order(req): a request without a truthy
\* promo code makes a single gateway call and is never in flight.
MayOrder(req) == TruthyStr(req.promo_code) => Free

\* Whether a run may start recommend_for_sku(sku, limit): a request for a SKU
\* that no product carries ends at its first gateway call and is never in
\* flight.
MayRecommend(sku) == get_documents("product", SkuFilter(sku), 1) # <<>> => Free

\* The create_order executions between their promo lookup and their insert.
PendingOrders == {i \in DOMAIN inflight : inflight[i].handler = "create_order"}

\* The documents created so far, all collections together, and those the
\* executions in flight are going to create.
TotalDocs == idCounter + Cardinality(PendingOrders)

\* Whether the run may create one more document.
Room == TotalDocs < MaxDocs

(* Pricing runs: promo documents appear in the store and orders are placed *)
(* with their code.                                                         *)

PricingNext ==
    \/ Len(db["promocode"]) < MaxPromos /\ \E promo \in PromoDocs : insert_promo(promo)
    \/ /\ Len(db["order"]) + Len(inflight) < MaxPricedOrders
       /\ \E req \in Requests : MayOrder(req) /\ create_order(req)
    \/ \E i \in DOMAIN inflight : create_order_write(i)

PricingSpec == Init /\ [][PricingNext]_vars

(* Lookup runs: active and inactive promo documents appear in the store and *)
(* orders are placed with a matching code, another code, an empty code or   *)
(* none.                                                                     *)

LookupNext ==
    \/ Len(db["promocode"]) < MaxPromos /\ \E promo \in LookupPromoDocs : insert_promo(promo)
    \/ /\ Len(db["order"]) + Len(inflight) < MaxPricedOrders
       /\ \E req \in LookupRequests : MayOrder(req) /\ create_order(req)
    \/ \E i \in DOMAIN inflight : create_order_write(i)

LookupSpec == Init /\ [][LookupNext]_vars

(* Tracking runs: orders are placed (without promo code, so in one step)   *)
(* and looked up by identifier.                                             *)

TrackingNext ==
    \/ Len(db["order"]) < MaxTrackedOrders /\ \E req \in TrackedRequests : create_order(req)
    \/ \E order_id \in OrderIds : track_order(order_id)

TrackingSpec == Init /\ [][TrackingNext]_vars

(* Catalog runs: products are created and recommendations asked for. *)

CatalogNext ==
    \/ Len(db["product"]) < MaxProducts /\ \E product \in Products : create_product(product)
    \/ \E sku \in Skus, limit \in Limits : MayRecommend(sku) /\ recommend_for_sku(sku, limit)
    \/ \E i \in DOMAIN inflight : recommend_candidates(i)

CatalogSpec == Init /\ [][CatalogNext]_vars

(* The whole service: every handler, driven with a few requests each.      *)

SamplePromos ==
    {[code |-> "SAVE10", percent_off |-> Some(10), amount_off |-> None, active |-> TRUE],
     [code |-> "SAVE10", percent_off |-> None, amount_off |-> Some(FromMills(5000)),
      active |-> FALSE]}

SampleRequests ==
    TrackedRequests \cup {[order |-> ScenarioOrder, promo_code |-> Some("SAVE10")]}

SampleOrderIds == {<<"a">>, <<"b", ".">>, <<"a", "b">>}

SampleProducts == {p \in Products : p.sku = "P1" /\ p.active}

SampleSkus == {"P1", "P9"}

Categories == {None, Some("padel")}

Queries == {None, Some(<<>>), Some(<<"g", ".">>)}

Wishlists == {[user_id |-> "u1", skus |-> <<"P1">>]}

Newsletters == {[email |-> "a@example.com", source |-> None]}

BlogPosts == [title : {"Hello"}, slug : {"hello"}, published : BOOLEAN]

Events == {[title |-> "Open day", location |-> "Court 1"]}

Feedbacks == [user_id : {None}, sku : {"P1"}, liked : BOOLEAN]

Next ==
    \/ Room /\ \E promo \in SamplePromos : insert_promo(promo)
    \/ Room /\ \E req \in SampleRequests : MayOrder(req) /\ create_order(req)
    \/ \E i \in DOMAIN inflight : create_order_write(i)
    \/ Room /\ \E product \in SampleProducts : create_product(product)
    \/ Room /\ \E w \in Wishlists : save_wishlist(w)
    \/ Room /\ \E n \in Newsletters : subscribe_newsletter(n)
    \/ Room /\ \E p \in BlogPosts : create_blog(p)
    \/ Room /\ \E e \in Events : create_event(e)
    \/ Room /\ \E f \in Feedbacks : recommendation_feedback(f)
    \/ \E order_id \in SampleOrderIds : track_order(order_id)
    \/ \E category \in Categories, q \in Queries, limit \in Limits :
           list_products(category, q, limit)
    \/ \E sku \in SampleSkus, limit \in Limits :
           MayRecommend(sku) /\ recommend_for_sku(sku, limit)
    \/ \E i \in DOMAIN inflight : recommend_candidates(i)
    \/ \E limit \in Limits : list_blog(limit)
    \/ \E limit \in Limits : list_events(limit)

Spec == Init /\ [][Next]_vars

-----------------------------------------------------------------------------
(* Properties of order placement, checked under PricingSpec (C1, C2, C5,    *)
(* C6) and LookupSpec (C3, C4).  They are read in the states where          *)
(* create_order has just completed: last is the record of that execution,   *)
(* and last.seen the promocode collection as the handler found it (promo    *)
(* documents may have arrived since).  Sums, products and roundings are     *)
(* those of Python floats, in the order the expressions are written.        *)

\* The last handler to complete was create_order.
Placed == last.handler = "create_order"

\* The order payload of the request, and the promo code sent with it.
Sent == last.req.order

SentCode == last.req.promo_code

\* The order document create_order persisted (the store appends).
Stored == db["order"][Len(db["order"])]

\* The positions of the active promo documents with exactly this code, among
\* those the handler found in the store.
ActivePromos(code) ==
    {i \in DOMAIN last.seen : last.seen[i].code = code /\ last.seen[i].active}

\* The request's promo code is the code of an active promo document.
CodeMatches == Placed /\ SentCode # None /\ ActivePromos(SentCode[1]) # {}

\* The request's promo code is not empty and is the code of an active promo
\* document.
Matched == CodeMatches /\ SentCode[1] # ""

\* The matched promo: the first one in store order.
Promo ==
    last.seen[CHOOSE i \in ActivePromos(SentCode[1]) :
                  \A j \in ActivePromos(SentCode[1]) : i <= j]

HasPercent == Promo.percent_off # None

HasAmount == Promo.amount_off # None

\* round(subtotal * P / 100, 2) for the request's subtotal and the promo's P
PercentPart == Round2(FDivInt(FMulInt(Sent.subtotal, Promo.percent_off[1]), 100))

\* max(0, round(subtotal + shipping_cost - discount, 2)) of the stored order
TotalFromStored ==
    Max0(Round2(FSub(FAdd(Stored.subtotal, Stored.shipping_cost), Stored.discount)))

\* C1 as stated: with an active percent-off promo of P%, the stored discount is
\* round(subtotal * P / 100, 2) and the stored total is
\* max(0, round(subtotal + shipping_cost - discount, 2)).
C1_PercentDiscountIsWholeDiscount ==
    (CodeMatches /\ HasPercent) =>
        /\ Stored.discount = PercentPart
        /\ Stored.total = TotalFromStored

\* C1 amended: with a non-empty promo code and an active percent-off promo of
\* P%, the stored discount is the caller-supplied discount plus
\* round(subtotal * P / 100, 2), plus the promo's amount-off when it defines
\* one too (float sums, in this order); the stored total is
\* max(0, round(subtotal + shipping_cost - discount, 2)).
C1_PercentDiscountAdded ==
    (Matched /\ HasPercent) =>
        /\ Stored.discount =
              IF HasAmount
              THEN FAdd(FAdd(Sent.discount, PercentPart), Promo.amount_off[1])
              ELSE FAdd(Sent.discount, PercentPart)
        /\ Stored.total = TotalFromStored

\* The scenario of C1: 100.00 + 10.00 with 10% off stores discount 10.00 and
\* total 100.00.
C1_Witness ==
    /\ Matched /\ HasPercent /\ ~HasAmount
    /\ Sent = ScenarioOrder
    /\ Stored.discount = FromMills(10000) /\ Stored.total = FromMills(100000)

\* C2 as stated: with an active amount-off promo of A, the stored discount is
\* the caller-supplied discount plus A.
C2_AmountAddedAlone ==
    (CodeMatches /\ HasAmount) =>
        Stored.discount = FAdd(Sent.discount, Promo.amount_off[1])

\* C2 amended: with a non-empty promo code and an active promo that defines an
\* amount-off A and no percent-off, the stored discount is the caller-supplied
\* discount plus A.
C2_AmountAdded ==
    (Matched /\ HasAmount /\ ~HasPercent) =>
        Stored.discount = FAdd(Sent.discount, Promo.amount_off[1])

\* The scenario of C2: 100.00 + 10.00 with 5.00 off stores discount 5.00 and
\* total 105.00.
C2_Witness ==
    /\ Matched /\ HasAmount /\ ~HasPercent
    /\ Sent = ScenarioOrder
    /\ Stored.discount = FromMills(5000) /\ Stored.total = FromMills(105000)

\* C3: a promo code with no active promo document of exactly that code, in
\* the store as the handler finds it, leaves the order as sent (discount and
\* total unchanged) and the request succeeds, as it does with no promo code.
C3_UnknownPromoIgnored ==
    (Placed /\ SentCode # None /\ ActivePromos(SentCode[1]) = {}) =>
        /\ PopId(Stored) = Sent
        /\ last.status = 201
        /\ last.body = [id |-> Stored._id, paypal_order_id |-> <<"SIM-PAYPAL-">> \o Stored._id]

\* A request with the code of a promo that was in the store but inactive when
\* the handler looked, and whose active successor arrived before the order was
\* written: the order is stored as sent.
C3_Witness ==
    /\ Placed /\ SentCode = Some("SAVE10") /\ ActivePromos("SAVE10") = {}
    /\ \E i \in DOMAIN last.seen :
          last.seen[i].code = "SAVE10" /\ last.seen[i].percent_off # None
    /\ \E i \in DOMAIN db["promocode"] :
          db["promocode"][i].code = "SAVE10" /\ db["promocode"][i].active
    /\ Stored.subtotal = FromMills(100000) /\ Stored.total = FromMills(0)

\* C4: without a promo code the stored total is the total of the request.
C4_TotalTrusted == (Placed /\ SentCode = None) => Stored.total = Sent.total

\* A request without promo code whose total disagrees with its other fields.
C4_Witness ==
    /\ Placed /\ SentCode = None
    /\ Sent.total #
          Max0(Round2(FSub(FAdd(Sent.subtotal, Sent.shipping_cost), Sent.discount)))
    /\ Stored.total = Sent.total

\* C5: after a promo adjustment the stored total is subtotal + shipping_cost -
\* discount, rounded to 2 decimals and floored at 0; it is never negative.
C5_TotalRecomputed ==
    Matched => (Stored.total = TotalFromStored /\ Stored.total.s # -1)

\* A promo applied to an order whose discount exceeds subtotal plus shipping.
C5_Witness ==
    /\ Matched /\ HasPercent /\ HasAmount
    /\ FSub(FAdd(Stored.subtotal, Stored.shipping_cost), Stored.discount).s = -1
    /\ Stored.total = FromMills(0)

\* C6: a promo with both a percent-off P and an amount-off A adds both: the
\* stored discount is the caller's discount + round(subtotal * P / 100, 2) + A.
C6_BothApplied ==
    (Matched /\ HasPercent /\ HasAmount) =>
        Stored.discount = FAdd(FAdd(Sent.discount, PercentPart), Promo.amount_off[1])

\* 0.05 with 10% and 5.00 off on a caller discount of 0.004: the percent part
\* is round(0.005, 2) = 0.01, and the discount 0.004 + 0.01 + 5.00.
C6_Witness ==
    /\ Matched /\ HasPercent /\ HasAmount
    /\ Sent.subtotal = FromMills(50) /\ Sent.discount = FromMills(4)
    /\ PercentPart = FromMills(10)
    /\ Stored.discount = FromMills(5014)

-----------------------------------------------------------------------------
(* Properties of the recommender, checked under CatalogSpec, in the states  *)
(* where recommend_for_sku has just completed.  The store only grows, so    *)
(* the first product with a SKU is the same at both reads of the handler.   *)

\* The last handler to complete was recommend_for_sku.
Recommended == last.handler = "recommend_for_sku"

\* The positions of the products carrying the requested SKU.
Carriers == {i \in DOMAIN db["product"] : db["product"][i].sku = last.req.sku}

\* The source product: the first one in store order with the requested SKU.
Source == db["product"][CHOOSE i \in Carriers : \A j \in Carriers : i <= j]

\* The source has at least one of tags, brand, category populated.
Populated == Source.tags # <<>> \/ Source.brand # "" \/ Source.category # ""

SharesTag(a, b) == Range(a.tags) \cap Range(b.tags) # {}

\* C7: every item recommended for an existing SKU is active, is not the source
\* SKU, and shares a tag, the brand or the category with the source product.
C7_ItemsMatchSource ==
    (Recommended /\ Carriers # {} /\ Populated) =>
        /\ last.status = 200
        /\ \A k \in DOMAIN last.body.items :
              LET item == last.body.items[k]
              IN  /\ item.active
                  /\ item.sku # last.req.sku
                  /\ PopId(item) \in {PopId(d) : d \in Range(db["product"])}
                  /\ \/ SharesTag(item, Source)
                     \/ item.brand = Source.brand
                     \/ item.category = Source.category

\* A recommendation that returns an item sharing only a tag with the source,
\* while the store holds two products.
C7_Witness ==
    /\ Recommended /\ Carriers # {} /\ Len(db["product"]) = 2
    /\ Len(last.body.items) = 1
    /\ SharesTag(last.body.items[1], Source)
    /\ last.body.items[1].brand # Source.brand
    /\ last.body.items[1].category # Source.category

\* C8: a SKU that no product carries yields not-found and no items.
C8_UnknownSkuNotFound ==
    (Recommended /\ Carriers = {}) =>
        (last.status = 404 /\ "items" \notin DOMAIN last.body)

\* A recommendation asked for a SKU absent from a store that holds active
\* products.
C8_Witness ==
    /\ Recommended /\ Carriers = {} /\ last.status = 404
    /\ \E i \in DOMAIN db["product"] : db["product"][i].active

-----------------------------------------------------------------------------
(* Properties of order tracking, checked under TrackingSpec.                *)

\* The last handler run was track_order.
Tracked == last.handler = "track_order"

\* order_id occurs in the identifier s as a substring.
Contains(s, order_id) ==
    \E i \in 0..(Len(s) - Len(order_id)) :
        \A j \in 1..Len(order_id) : s[i + j] = order_id[j]

\* The stored orders whose identifier contains the requested order_id ...
Containing == {i \in DOMAIN db["order"] : Contains(db["order"][i]._id, last.req)}

\* ... and those whose identifier the requested order_id matches as a pattern.
Matching == {i \in DOMAIN db["order"] : RegexSearch(last.req, db["order"][i]._id, FALSE)}

\* The first of a non-empty set of positions.
First(S) == CHOOSE i \in S : \A j \in S : i <= j

\* C9 as stated: track order answers with the first stored order whose
\* identifier contains order_id as a substring, without its _id, and with
\* not-found when no identifier contains it.
C9_FirstContaining ==
    Tracked =>
        IF Containing # {}
        THEN last.status = 200 /\ last.body = PopId(db["order"][First(Containing)])
        ELSE last.status = 404

\* C9 amended: track order answers with the first stored order whose identifier
\* order_id matches as a regular expression searched anywhere in it (substring
\* containment when order_id has no metacharacter), without its _id, and with
\* not-found when it matches no identifier.
C9_FirstMatching ==
    Tracked =>
        /\ IF Matching # {}
           THEN /\ last.status = 200
                /\ last.body = PopId(db["order"][First(Matching)])
                /\ "_id" \notin DOMAIN last.body
           ELSE last.status = 404
        /\ ("." \notin Range(last.req)) => Matching = Containing

\* A literal order_id found in the second and third stored identifier, not in
\* the first: the second order is returned.
C9_Witness ==
    /\ Tracked /\ last.req = <<"b">> /\ Len(db["order"]) = 3
    /\ Containing = {2, 3}
    /\ last.status = 200 /\ last.body = PopId(db["order"][2])

-----------------------------------------------------------------------------
(* Gateway calls per handler execution, checked under Spec.                 *)

Reads == Count(last.calls, "read")

Writes == Count(last.calls, "write")

\* C10 as stated: every handler execution issues at most one store read and at
\* most one store write.
C10_OneReadOneWrite == Reads <= 1 /\ Writes <= 1

\* C10 amended: every handler execution issues at most one store write, and at
\* most one store read, except recommend, which issues two reads when the SKU
\* exists (the source product, then the candidates) and one when it does not.
C10_ReadsAndWrites ==
    /\ Writes <= 1
    /\ IF last.handler = "recommend_for_sku"
       THEN Reads = (IF last.status = 200 THEN 2 ELSE 1) /\ Writes = 0
       ELSE Reads <= 1

\* An order placed with a promo code: one read (the promo) and one write.
C10_Witness ==
    /\ last.handler = "create_order" /\ last.req.promo_code = Some("SAVE10")
    /\ Reads = 1 /\ Writes = 1

=============================================================================
